---- MODULE Spec2Model ----
(***************************************************************************)
(* Model of internal/testutils/utils.go of operator-sdk: the four file     *)
(* patching helpers (ReplaceInFile, ReplaceRegexInFile, UncommentCode,     *)
(* AllowProjectBeMultiGroup) and the prerequisite bookkeeping of           *)
(* TestContext (NewTestContext, InstallPrerequisites,                      *)
(* UninstallPrerequisites).                                                *)
(*                                                                         *)
(* A file is a sequence of one-character strings plus its permission bits. *)
(* Strings of the Go code are sequences of one-character strings too, so   *)
(* that substring search, replacement and line scanning are computed, not  *)
(* assumed.                                                                *)
(***************************************************************************)
EXTENDS Integers, Sequences, FiniteSets, TLC

VARIABLES
    content,    \* bytes of the file at the path the helpers are called on
    mode,       \* permission bits of that file
    pc,         \* "idle": no call in progress; "returned": a call has returned
    call,       \* the last call: its arguments, what it read and what it returned
    base,       \* content of the file when the present run of prepends began
    nMulti,     \* successful AllowProjectBeMultiGroup calls since base
    procs,      \* two helpers racing on the path: each one's position and locals
    orig,       \* content of the file before the race
    overlap,    \* a racer read or opened the file inside the other's write
    cluster,    \* which prerequisites the cluster holds
    tc,         \* the caller's TestContext: how it was made and its two flags
    run         \* the test run: its position and what it installed and removed

vars == <<content, mode, pc, call, base, nMulti, procs, orig, overlap,
          cluster, tc, run>>

raceVars == <<procs, orig, overlap>>

suiteVars == <<cluster, tc, run>>

----------------------------------------------------------------------------
(* Bounds of the model.                                                    *)

MaxLen == 3
MaxArg == 2
MaxPartial == 1
MaxPrepends == 2
MaxLit == 2
MaxRuns == 2

Alphabet == {"a", "b", "\n"}

Modes == {384, 420}          \* 0600 and 0644

Str(A, n) == UNION {[1..k -> A] : k \in 0..n}

----------------------------------------------------------------------------
(* Package strings.                                                        *)

Min(a, b) == IF a < b THEN a ELSE b

\* s[i:j] of Go, 0-based, j exclusive.
Slice(s, i, j) == SubSeq(s, i + 1, j)

HasPrefix(s, p) == Len(s) >= Len(p) /\ Slice(s, 0, Len(p)) = p

\* strings.Index: the 0-based offset of the first occurrence of t in s, or -1.
Index(s, t) ==
    LET hits == {i \in 0..(Len(s) - Len(t)) : Slice(s, i, i + Len(t)) = t}
    IN  IF hits = {} THEN -1 ELSE CHOOSE i \in hits : \A j \in hits : i <= j

Contains(s, t) == Index(s, t) >= 0

TrimPrefix(s, p) == IF HasPrefix(s, p) THEN Slice(s, Len(p), Len(s)) ELSE s

RECURSIVE Interleave(_, _)
\* strings.Replace with an empty old: new before every character and at the end.
Interleave(s, new) ==
    IF s = <<>> THEN new ELSE new \o <<Head(s)>> \o Interleave(Tail(s), new)

RECURSIVE ReplaceN(_, _, _, _)
\* strings.Replace(s, old, new, n) for a non-empty old; n < 0 is no limit.
ReplaceN(s, old, new, n) ==
    LET j == Index(s, old)
    IN  IF n = 0 \/ j < 0 THEN s
        ELSE Slice(s, 0, j) \o new
               \o ReplaceN(Slice(s, j + Len(old), Len(s)), old, new,
                           IF n < 0 THEN n ELSE n - 1)

ReplaceFirstOnly(s, old, new, n) ==
    IF old = new THEN s
    ELSE IF old = <<>> THEN new \o s
    ELSE ReplaceN(s, old, new, 1)

Replace(s, old, new, n) ==
    IF old = new \/ n = 0 THEN s
    ELSE IF old = <<>> THEN Interleave(s, new)
    ELSE ReplaceN(s, old, new, n)

----------------------------------------------------------------------------
(* The file system calls the helpers make.                                 *)

DefaultPerm == 420

\* os.Stat: the FileInfo of the file.
Stat(c, m) == [size |-> Len(c), mode |-> m]

InfoModeFixed(info) == DefaultPerm

\* info.Mode()
InfoMode(info) == info.mode

\* The ways ioutil.WriteFile(path, data, perm) can end on an existing file:
\* the open fails and the file is untouched; the file is truncated by the
\* open and the write stops after k < len(data) bytes; all is written and
\* the close fails; or all is written.
WriteFaults(data) ==
    {[kind |-> "ok", k |-> Len(data)], [kind |-> "open", k |-> 0],
     [kind |-> "close", k |-> Len(data)]}
    \cup {[kind |-> "short", k |-> k] : k \in 0..Min(MaxPartial, Len(data) - 1)}

WriteFileNoTrunc(c, data, w) ==
    CASE w.kind = "open"  -> [content |-> c, err |-> "io"]
      [] w.kind = "short" ->
           [content |-> Slice(data, 0, w.k) \o Slice(c, Min(w.k, Len(c)), Len(c)),
            err |-> "io"]
      [] OTHER            ->
           [content |-> data \o Slice(c, Min(Len(data), Len(c)), Len(c)),
            err |-> IF w.kind = "close" THEN "io" ELSE "nil"]

NotTruncated(c) == c

\* What os.OpenFile with O_TRUNC leaves of an existing file.
Truncated(c) == <<>>

\* File.Write on a file just opened: data goes over the bytes at offset 0 and
\* whatever the file holds beyond them stays.
WriteAtStart(c, data) == data \o Slice(c, Min(Len(data), Len(c)), Len(c))

\* ioutil.WriteFile on an existing file: O_WRONLY|O_CREATE|O_TRUNC, Write,
\* Close.  perm is used only when the file is created, so the mode of an
\* existing file is left as it is.
WriteFile(c, data, w) ==
    CASE w.kind = "open"  -> [content |-> c, err |-> "io"]
      [] w.kind = "short" ->
           [content |-> WriteAtStart(Truncated(c), Slice(data, 0, w.k)), err |-> "io"]
      [] OTHER            ->
           [content |-> WriteAtStart(Truncated(c), data),
            err |-> IF w.kind = "close" THEN "io" ELSE "nil"]

----------------------------------------------------------------------------
(* What each helper decides from the bytes it read: the error it returns   *)
(* when no write fails, whether it calls WriteFile, and with what.         *)

NoWrite(err) == [err |-> err, write |-> FALSE, data |-> <<>>, perm |-> 0]

ReplaceInFilePlan(b, info, old, new) ==
    IF ~Contains(b, old) THEN NoWrite("notfound")
    ELSE [err |-> "nil", write |-> TRUE,
          data |-> Replace(b, old, new, -1), perm |-> InfoMode(info)]

----------------------------------------------------------------------------
(* Package regexp, for the patterns the model draws: an alternation of     *)
(* branches, each a literal that may be anchored with ^ and with $.  A     *)
(* replacement template is a sequence of literal characters and of the     *)
(* token "${0}", the text of the match.                                    *)

Branches ==
    {[bol |-> x, lit |-> l, eol |-> y] :
        x \in BOOLEAN, l \in Str({"a"}, MaxLit), y \in BOOLEAN}

\* The result of regexp.Compile: valid patterns, and one that does not parse.
BadPattern == [valid |-> FALSE, alts |-> <<>>]

Patterns ==
    {[valid |-> TRUE, alts |-> a] :
        a \in {<<b>> : b \in Branches} \cup (Branches \X Branches)}
    \cup {BadPattern}

Templates == {<<>>, <<"a">>, <<"${0}">>}

\* Whether branch b matches s at offset i, and where that match ends.
BranchEnd(b, s, i) ==
    IF /\ (b.bol => i = 0)
       /\ i + Len(b.lit) <= Len(s)
       /\ Slice(s, i, i + Len(b.lit)) = b.lit
       /\ (b.eol => i + Len(b.lit) = Len(s))
    THEN i + Len(b.lit) ELSE -1

\* Leftmost-first: at offset i the first branch that matches wins.
MatchEnd(p, s, i) ==
    LET ok == {n \in 1..Len(p.alts) : BranchEnd(p.alts[n], s, i) >= 0}
    IN  IF ok = {} THEN -1
        ELSE BranchEnd(p.alts[CHOOSE n \in ok : \A m \in ok : n <= m], s, i)

\* The leftmost match starting at or after pos: <<start, end>>, or <<>>.
Find(p, s, pos) ==
    LET at == {i \in pos..Len(s) : MatchEnd(p, s, i) >= 0}
    IN  IF at = {} THEN <<>>
        ELSE LET i == CHOOSE i \in at : \A j \in at : i <= j
             IN  <<i, MatchEnd(p, s, i)>>

RECURSIVE Expand(_, _)
\* Regexp.expand: the template with "${0}" replaced by the matched text.
Expand(t, m) ==
    IF t = <<>> THEN <<>>
    ELSE (IF Head(t) = "${0}" THEN m ELSE <<Head(t)>>) \o Expand(Tail(t), m)

RECURSIVE ReplaceLoop(_, _, _, _, _, _)
\* The loop of Regexp.replaceAll: buf is what has been produced, lastEnd the
\* end of the previous match, searchPos where the next search starts.
ReplaceLoop(p, src, repl, buf, lastEnd, searchPos) ==
    IF searchPos > Len(src) THEN buf \o Slice(src, lastEnd, Len(src))
    ELSE LET a == Find(p, src, searchPos)
         IN  IF a = <<>> THEN buf \o Slice(src, lastEnd, Len(src))
             ELSE LET width == IF searchPos < Len(src) THEN 1 ELSE 0
                      \* no replacement for an empty match right after a match
                      out == buf \o Slice(src, lastEnd, a[1])
                                 \o (IF a[2] > lastEnd \/ a[1] = 0
                                     THEN Expand(repl, Slice(src, a[1], a[2]))
                                     ELSE <<>>)
                      next == IF searchPos + width > a[2] THEN searchPos + width
                              ELSE IF searchPos + 1 > a[2] THEN searchPos + 1
                              ELSE a[2]
                  IN  ReplaceLoop(p, src, repl, out, a[2], next)

ReplaceFirstMatch(p, src, repl) ==
    LET a == Find(p, src, 0)
    IN  IF a = <<>> THEN src
        ELSE Slice(src, 0, a[1]) \o Expand(repl, Slice(src, a[1], a[2]))
                \o Slice(src, a[2], Len(src))

\* Regexp.ReplaceAllString
ReplaceAllString(p, src, repl) == ReplaceLoop(p, src, repl, <<>>, 0, 0)

RECURSIVE MatchList(_, _, _, _)
\* The matches ReplaceAllString replaces, in order, as <<start, end>> pairs.
MatchList(p, src, lastEnd, searchPos) ==
    IF searchPos > Len(src) THEN <<>>
    ELSE LET a == Find(p, src, searchPos)
         IN  IF a = <<>> THEN <<>>
             ELSE LET width == IF searchPos < Len(src) THEN 1 ELSE 0
                      next == IF searchPos + width > a[2] THEN searchPos + width
                              ELSE IF searchPos + 1 > a[2] THEN searchPos + 1
                              ELSE a[2]
                  IN  (IF a[2] > lastEnd \/ a[1] = 0 THEN <<a>> ELSE <<>>)
                        \o MatchList(p, src, a[2], next)

Matches(p, src) == MatchList(p, src, 0, 0)

ReplaceRegexInFilePlan(b, info, matcher, replace) ==
    LET s == ReplaceAllString(matcher, b, replace)
    IN  IF s = b THEN NoWrite("notfound")
        ELSE [err |-> "nil", write |-> TRUE, data |-> s, perm |-> InfoMode(info)]

----------------------------------------------------------------------------
(* UncommentCode.                                                          *)

\* bufio's dropCR: a line without its trailing carriage return.
DropCR(l) ==
    IF Len(l) > 0 /\ l[Len(l)] = "\r" THEN Slice(l, 0, Len(l) - 1) ELSE l

RECURSIVE ScanLines(_)
\* The tokens bufio.Scanner yields for t with the default split function
\* bufio.ScanLines: the text between line breaks; nothing after a final one.
ScanLines(t) ==
    IF t = <<>> THEN <<>>
    ELSE LET j == Index(t, <<"\n">>)
         IN  IF j < 0 THEN <<DropCR(t)>>
             ELSE <<DropCR(Slice(t, 0, j))>> \o ScanLines(Slice(t, j + 1, Len(t)))

RECURSIVE Uncommented(_, _)
\* The loop of lines 199-211: every line without the prefix, a "\n" written
\* between two lines and none after the last.
Uncommented(lines, prefix) ==
    IF Len(lines) = 1 THEN TrimPrefix(lines[1], prefix)
    ELSE TrimPrefix(lines[1], prefix) \o <<"\n">> \o Uncommented(Tail(lines), prefix)

UncommentCodeWriteFirst(c, target, prefix) ==
    LET idx == Index(c, target)
    IN  IF idx < 0
        THEN [err |-> "notfound", write |-> TRUE, data |-> <<>>, perm |-> DefaultPerm]
        ELSE [err |-> "nil", write |-> TRUE, data |-> c, perm |-> DefaultPerm]

UncommentCodePlan(c, target, prefix) ==
    LET idx == Index(c, target)
        lines == ScanLines(target)
    IN  IF idx < 0 THEN NoWrite("notfound")
        ELSE IF lines = <<>> THEN NoWrite("nil")
        ELSE [err |-> "nil", write |-> TRUE,
              data |-> Slice(c, 0, idx) \o Uncommented(lines, prefix)
                         \o Slice(c, idx + Len(target), Len(c)),
              perm |-> DefaultPerm]

----------------------------------------------------------------------------
(* AllowProjectBeMultiGroup.                                               *)

multiGroup ==
    <<"m", "u", "l", "t", "i", "g", "r", "o", "u", "p", ":", " ",
      "t", "r", "u", "e", "\n">>

AllowProjectBeMultiGroupOnce(projectBytes) ==
    IF HasPrefix(projectBytes, multiGroup) THEN NoWrite("nil")
    ELSE [err |-> "nil", write |-> TRUE, data |-> multiGroup \o projectBytes,
          perm |-> DefaultPerm]

\* Lines 280-288: the line, then the bytes read.
AllowProjectBeMultiGroupPlan(projectBytes) ==
    [err |-> "nil", write |-> TRUE, data |-> multiGroup \o projectBytes,
     perm |-> DefaultPerm]

----------------------------------------------------------------------------
(* The helpers as steps of a test that calls them one after another.       *)

NoProc ==
    [pc |-> "start", op |-> "none", old |-> <<>>, new |-> <<>>, b |-> <<>>,
     data |-> <<>>, err |-> "nil"]

NoContext ==
    [made |-> "none", isPrometheusManagedBySuite |-> FALSE,
     isOLMManagedBySuite |-> FALSE]

NoRun ==
    [pc |-> "start", promBefore |-> FALSE, olmBefore |-> FALSE,
     installedProm |-> FALSE, installedOLM |-> FALSE,
     uninstalledProm |-> FALSE, uninstalledOLM |-> FALSE, output |-> {},
     n |-> 0]

NoCall ==
    [op |-> "none", a1 |-> <<>>, a2 |-> <<>>, pre |-> <<>>, preMode |-> 0,
     fault |-> "none", err |-> "nil", wrote |-> FALSE, data |-> <<>>, perm |-> 0]

\* The longest file the model lets a call produce.
MaxFile == MaxLen + MaxPrepends * Len(multiGroup)

\* A call returns: c is the content it leaves in the file.
Returns(op, a1, a2, fault, err, wrote, data, perm, c) ==
    /\ pc' = "returned"
    /\ content' = c
    /\ mode' = mode
    /\ call' = [op |-> op, a1 |-> a1, a2 |-> a2, pre |-> content,
                preMode |-> mode, fault |-> fault, err |-> err,
                wrote |-> wrote, data |-> data, perm |-> perm]
    /\ IF op = "AllowProjectBeMultiGroup" /\ err = "nil"
       THEN base' = base /\ nMulti' = nMulti + 1
       ELSE IF c # content
       THEN base' = c /\ nMulti' = 0
       ELSE base' = base /\ nMulti' = nMulti
    /\ UNCHANGED <<raceVars, suiteVars>>

\* A call that gets as far as its plan: it returns the plan's error without
\* writing, or writes plan.data and returns WriteFile's error if there is one.
Carries(op, a1, a2, plan, cap) ==
    \/ /\ ~plan.write
       /\ Returns(op, a1, a2, "none", plan.err, FALSE, <<>>, 0, content)
    \/ /\ plan.write
       /\ Len(plan.data) <= cap
       /\ \E w \in WriteFaults(plan.data) :
            LET r == WriteFile(content, plan.data, w)
            IN  Returns(op, a1, a2, IF w.kind = "ok" THEN "none" ELSE w.kind,
                        IF r.err = "nil" THEN plan.err ELSE r.err,
                        TRUE, plan.data, plan.perm, r.content)

\* A file may shrink or keep its length whatever it is, and grow up to MaxLen.
Cap == IF Len(content) > MaxLen THEN Len(content) ELSE MaxLen

ReplaceInFile(old, new) ==
    /\ pc = "idle"
    /\ \/ \E f \in {"stat", "read"} :
            Returns("ReplaceInFile", old, new, f, "io", FALSE, <<>>, 0, content)
       \/ Carries("ReplaceInFile", old, new,
                  ReplaceInFilePlan(content, Stat(content, mode), old, new), Cap)

ReplaceRegexInFile(match, replace) ==
    /\ pc = "idle"
    /\ \/ /\ ~match.valid
          /\ Returns("ReplaceRegexInFile", match, replace, "none", "syntax",
                     FALSE, <<>>, 0, content)
       \/ /\ match.valid
          /\ \E f \in {"stat", "read"} :
               Returns("ReplaceRegexInFile", match, replace, f, "io", FALSE,
                       <<>>, 0, content)
       \/ /\ match.valid
          /\ Carries("ReplaceRegexInFile", match, replace,
                     ReplaceRegexInFilePlan(content, Stat(content, mode), match, replace),
                     Cap)

UncommentCode(target, prefix) ==
    /\ pc = "idle"
    /\ \/ Returns("UncommentCode", target, prefix, "read", "io", FALSE, <<>>, 0,
                  content)
       \/ Carries("UncommentCode", target, prefix,
                  UncommentCodePlan(content, target, prefix), Cap)

AllowProjectBeMultiGroup ==
    /\ pc = "idle"
    /\ \/ Returns("AllowProjectBeMultiGroup", <<>>, <<>>, "read", "io", FALSE,
                  <<>>, 0, content)
       \/ Carries("AllowProjectBeMultiGroup", <<>>, <<>>,
                  AllowProjectBeMultiGroupPlan(content), MaxFile)

\* The caller has taken the returned error (WrapWarn prints it as a warning)
\* and goes on to its next call.
WrapWarn ==
    /\ pc = "returned"
    /\ pc' = "idle"
    /\ call' = NoCall
    /\ UNCHANGED <<content, mode, base, nMulti, raceVars, suiteVars>>

\* No race in progress.
NoRace ==
    /\ procs = [p \in {1, 2} |-> NoProc]
    /\ orig = <<>>
    /\ overlap = FALSE

\* No test run in progress.
NoSuite ==
    /\ cluster = [prom |-> FALSE, olm |-> FALSE]
    /\ tc = NoContext
    /\ run = NoRun

Init ==
    /\ content \in Str(Alphabet, MaxLen)
    /\ mode \in Modes
    /\ pc = "idle"
    /\ call = NoCall
    /\ base = content
    /\ nMulti = 0
    /\ NoRace
    /\ NoSuite

Letters == {"a", "b"}

\* One-branch patterns and the pattern that does not compile.
SimplePatterns ==
    {p \in Patterns : Len(p.alts) <= 1}

Next ==
    \/ \E old \in Str(Letters, MaxArg), new \in Str(Letters, MaxArg) :
         ReplaceInFile(old, new)
    \/ \E match \in SimplePatterns, replace \in Templates :
         ReplaceRegexInFile(match, replace)
    \/ \E target \in Str(Alphabet, MaxArg), prefix \in Str(Letters, 1) :
         UncommentCode(target, prefix)
    \/ (Len(content) <= MaxLen /\ AllowProjectBeMultiGroup)
    \/ WrapWarn

Spec == Init /\ [][Next]_vars

\* ReplaceRegexInFile alone, on files of letters, with two-branch patterns.
InitRegex ==
    /\ content \in Str(Letters, MaxLen)
    /\ mode \in Modes
    /\ pc = "idle"
    /\ call = NoCall
    /\ base = content
    /\ nMulti = 0
    /\ NoRace
    /\ NoSuite

NextRegex ==
    \/ \E match \in Patterns, replace \in Templates :
         ReplaceRegexInFile(match, replace)
    \/ WrapWarn

SpecRegex == InitRegex /\ [][NextRegex]_vars

\* The PROJECT file, which only AllowProjectBeMultiGroup writes.
NextProject ==
    \/ AllowProjectBeMultiGroup
    \/ WrapWarn

SpecProject == Init /\ [][NextProject]_vars

----------------------------------------------------------------------------
(* Two helpers called at the same time on one path.  Nothing locks the     *)
(* file, so the steps of the two calls interleave: each call reads the     *)
(* file, then WriteFile opens it, which truncates it, and then writes.     *)

Racers == {1, 2}

Other(p) == 3 - p

\* What racer r's helper decides from the bytes b.
RacePlan(r, b) ==
    IF r.op = "ReplaceInFile"
    THEN ReplaceInFilePlan(b, Stat(b, mode), r.old, r.new)
    ELSE AllowProjectBeMultiGroupPlan(b)

\* os.Stat and ioutil.ReadFile of lines 114-118, ioutil.ReadFile of line 282.
RaceRead(p, op, old, new) ==
    /\ procs[p].pc = "start"
    /\ procs' = [procs EXCEPT ![p] =
                    [pc |-> "read", op |-> op, old |-> old, new |-> new,
                     b |-> content, data |-> <<>>, err |-> "nil"]]
    /\ overlap' = (overlap \/ procs[Other(p)].pc = "opened")
    /\ UNCHANGED <<content, mode, pc, call, base, nMulti, orig, suiteVars>>

\* The call returns its error without writing.
RaceReturn(p) ==
    /\ procs[p].pc = "read"
    /\ ~RacePlan(procs[p], procs[p].b).write
    /\ procs' = [procs EXCEPT ![p].pc = "done",
                              ![p].err = RacePlan(procs[p], procs[p].b).err]
    /\ UNCHANGED <<content, mode, pc, call, base, nMulti, orig, overlap, suiteVars>>

\* ioutil.WriteFile opens the file with O_TRUNC.
RaceOpen(p) ==
    /\ procs[p].pc = "read"
    /\ RacePlan(procs[p], procs[p].b).write
    /\ procs' = [procs EXCEPT ![p].pc = "opened",
                              ![p].data = RacePlan(procs[p], procs[p].b).data]
    /\ content' = Truncated(content)
    /\ overlap' = (overlap \/ procs[Other(p)].pc = "opened")
    /\ UNCHANGED <<mode, pc, call, base, nMulti, orig, suiteVars>>

\* ioutil.WriteFile writes the data and closes the file.
RaceWrite(p) ==
    /\ procs[p].pc = "opened"
    /\ procs' = [procs EXCEPT ![p].pc = "done"]
    /\ content' = WriteAtStart(content, procs[p].data)
    /\ UNCHANGED <<mode, pc, call, base, nMulti, orig, overlap, suiteVars>>

InitRace ==
    /\ content \in Str(Letters, MaxArg)
    /\ mode \in Modes
    /\ pc = "idle"
    /\ call = NoCall
    /\ base = content
    /\ nMulti = 0
    /\ procs = [p \in Racers |-> NoProc]
    /\ orig = content
    /\ overlap = FALSE
    /\ NoSuite

NextRace ==
    \E p \in Racers :
        \/ \E old \in Str(Letters, 1), new \in Str(Letters, 1) :
             RaceRead(p, "ReplaceInFile", old, new)
        \/ RaceRead(p, "AllowProjectBeMultiGroup", <<>>, <<>>)
        \/ RaceReturn(p)
        \/ RaceOpen(p)
        \/ RaceWrite(p)

SpecRace == InitRace /\ [][NextRace]_vars

RaceDone == \A p \in Racers : procs[p].pc = "done"

\* What racer p's call leaves in a file that holds c when nothing interferes.
Out(p, c) ==
    LET plan == RacePlan(procs[p], c)
    IN  IF plan.write THEN plan.data ELSE c

LastWriterWins ==
    content \in {Out(1, orig), Out(2, orig),
                 Out(1, Out(2, orig)), Out(2, Out(1, orig))}

----------------------------------------------------------------------------
(* The prerequisites of a test run.  cluster.prom says whether the cluster *)
(* serves the servicemonitors kind (Prometheus is installed), cluster.olm  *)
(* whether it serves clusterserviceversions (OLM is installed).            *)

\* kubectl api-resources: the kinds the cluster serves.
ApiResources(cl) ==
    (IF cl.prom THEN {"servicemonitors"} ELSE {})
    \cup (IF cl.olm THEN {"clusterserviceversions"} ELSE {})
    \cup {"pods"}

ManagedUnchecked(flag, output, kind) == flag

\* Lines 228-233: a flag is cleared when the output names the kind.
Managed(flag, output, kind) == IF kind \in output THEN FALSE ELSE flag

\* Lines 52-62.  kbtestutils.NewTestContext may fail, and the test stops.
NewTestContext ==
    /\ run.pc = "start"
    /\ \/ /\ tc' = [made |-> "NewTestContext",
                    isPrometheusManagedBySuite |-> TRUE,
                    isOLMManagedBySuite |-> TRUE]
          /\ run' = [run EXCEPT !.pc = "ready"]
       \/ /\ tc' = NoContext
          /\ run' = [run EXCEPT !.pc = "stopped"]
    /\ UNCHANGED <<content, mode, pc, call, base, nMulti, raceVars, cluster>>

\* Lines 67-85: the flags keep their zero value.
NewPartialTestContext ==
    /\ run.pc = "start"
    /\ tc' = [made |-> "NewPartialTestContext",
              isPrometheusManagedBySuite |-> FALSE,
              isOLMManagedBySuite |-> FALSE]
    /\ run' = [run EXCEPT !.pc = "ready"]
    /\ UNCHANGED <<content, mode, pc, call, base, nMulti, raceVars, cluster>>

\* Lines 224-252.  The receiver is a copy of the caller's TestContext: the
\* flags the method clears are those of the copy, and tc keeps its own.  A
\* failed Expect stops the method where it is.
InstallPrerequisites ==
    /\ run.pc = "ready"
    /\ LET output == ApiResources(cluster)
           isPrometheusManagedBySuite ==
               Managed(tc.isPrometheusManagedBySuite, output, "servicemonitors")
           isOLMManagedBySuite ==
               Managed(tc.isOLMManagedBySuite, output, "clusterserviceversions")
       IN  \/ \* kubectl api-resources fails
              /\ run' = [run EXCEPT !.pc = "aborted"]
              /\ cluster' = cluster
           \/ \* InstallPrometheusOperManager or the wait for its Service fails
              /\ isPrometheusManagedBySuite
              /\ \E left \in BOOLEAN :
                   /\ cluster' = [cluster EXCEPT !.prom = left]
                   /\ run' = [run EXCEPT !.pc = "aborted", !.output = output,
                                         !.installedProm = left]
           \/ \* InstallOLMVersion fails
              /\ isOLMManagedBySuite
              /\ cluster' = [cluster EXCEPT
                                !.prom = (cluster.prom \/ isPrometheusManagedBySuite)]
              /\ run' = [run EXCEPT !.pc = "aborted", !.output = output,
                                    !.installedProm = isPrometheusManagedBySuite]
           \/ \* every step succeeds
              /\ cluster' = [prom |-> (cluster.prom \/ isPrometheusManagedBySuite),
                             olm |-> (cluster.olm \/ isOLMManagedBySuite)]
              /\ run' = [run EXCEPT !.pc = "installed", !.output = output,
                                    !.installedProm = isPrometheusManagedBySuite,
                                    !.installedOLM = isOLMManagedBySuite]
    /\ UNCHANGED <<content, mode, pc, call, base, nMulti, raceVars, tc>>

\* Lines 264-273, with UninstallOLM of lines 104-109: a failed uninstall is
\* a warning, and the prerequisite stays.
UninstallPrerequisites ==
    /\ run.pc \in {"installed", "aborted"}
    /\ \E promGone \in BOOLEAN, olmGone \in BOOLEAN :
         /\ cluster' =
              [prom |-> (cluster.prom /\ ~(tc.isPrometheusManagedBySuite /\ promGone)),
               olm |-> (cluster.olm /\ ~(tc.isOLMManagedBySuite /\ olmGone))]
         /\ run' = [run EXCEPT
                       !.pc = IF run.pc = "installed" THEN "torn" ELSE "tornAborted",
                       !.uninstalledProm = tc.isPrometheusManagedBySuite,
                       !.uninstalledOLM = tc.isOLMManagedBySuite]
    /\ UNCHANGED <<content, mode, pc, call, base, nMulti, raceVars, tc>>

\* The next test run on the same cluster.
NewRun ==
    /\ run.pc \in {"torn", "tornAborted", "stopped"}
    /\ run.n + 1 < MaxRuns
    /\ run' = [NoRun EXCEPT !.promBefore = cluster.prom,
                            !.olmBefore = cluster.olm, !.n = run.n + 1]
    /\ tc' = NoContext
    /\ UNCHANGED <<content, mode, pc, call, base, nMulti, raceVars, cluster>>

InitSuite ==
    /\ content = <<>>
    /\ mode = DefaultPerm
    /\ pc = "idle"
    /\ call = NoCall
    /\ base = <<>>
    /\ nMulti = 0
    /\ NoRace
    /\ cluster \in [prom : BOOLEAN, olm : BOOLEAN]
    /\ tc = NoContext
    /\ run = [NoRun EXCEPT !.promBefore = cluster.prom, !.olmBefore = cluster.olm]

NextSuite ==
    \/ NewTestContext
    \/ NewPartialTestContext
    \/ InstallPrerequisites
    \/ UninstallPrerequisites
    \/ NewRun

SpecSuite == InitSuite /\ [][NextSuite]_vars

----------------------------------------------------------------------------
(* Properties.                                                             *)

Returned(op) == pc = "returned" /\ call.op = op

RECURSIVE Power(_, _)
\* n copies of s, one after the other.
Power(s, n) == IF n = 0 THEN <<>> ELSE s \o Power(s, n - 1)

RECURSIVE Substituted(_, _, _)
\* s read left to right, every occurrence of a non-empty old met on the way
\* replaced by new.
Substituted(s, old, new) ==
    IF s = <<>> THEN <<>>
    ELSE IF HasPrefix(s, old)
    THEN new \o Substituted(Slice(s, Len(old), Len(s)), old, new)
    ELSE <<Head(s)>> \o Substituted(Tail(s), old, new)

RECURSIVE KeepBreaks(_, _)
\* t with the prefix taken off the start of each line and every line break
\* kept, a final one included.
KeepBreaks(t, prefix) ==
    LET j == Index(t, <<"\n">>)
    IN  IF j < 0 THEN TrimPrefix(t, prefix)
        ELSE TrimPrefix(Slice(t, 0, j), prefix) \o <<"\n">>
               \o KeepBreaks(Slice(t, j + 1, Len(t)), prefix)

RECURSIVE Assembled(_, _, _, _)
\* src from offset pos on, with the matches ms (in order) replaced.
Assembled(src, ms, repl, pos) ==
    IF ms = <<>> THEN Slice(src, pos, Len(src))
    ELSE Slice(src, pos, Head(ms)[1])
           \o Expand(repl, Slice(src, Head(ms)[1], Head(ms)[2]))
           \o Assembled(src, Tail(ms), repl, Head(ms)[2])

\* C1: a call of ReplaceInFile, ReplaceRegexInFile or UncommentCode that
\* returns the not-found error has not called WriteFile, and the file holds
\* the bytes and the mode it held before the call.
C1_NotFoundLeavesFile ==
    (pc = "returned" /\ call.err = "notfound")
        => /\ call.op \in {"ReplaceInFile", "ReplaceRegexInFile", "UncommentCode"}
           /\ ~call.wrote
           /\ content = call.pre
           /\ mode = call.preMode

C1_Witness ==
    /\ Returned("UncommentCode")
    /\ call.err = "notfound"
    /\ call.pre # <<>>
    /\ content = call.pre

\* C3 as claimed: after a successful UncommentCode the file is what was
\* before the target, the target with the prefix off each line and all its
\* line breaks kept, and what was after the target.
C3_UncommentKeepsLineBreaks ==
    (Returned("UncommentCode") /\ call.err = "nil")
        => LET idx == Index(call.pre, call.a1)
           IN  content = Slice(call.pre, 0, idx) \o KeepBreaks(call.a1, call.a2)
                           \o Slice(call.pre, idx + Len(call.a1), Len(call.pre))

\* C4 as claimed: a call ends with no error and the transformed content in
\* the file, or with an error and the file as it was before the call.
C4_AllOrNothing ==
    pc = "returned"
        => \/ call.err = "nil"
              /\ content = (IF call.wrote THEN call.data ELSE call.pre)
           \/ call.err # "nil" /\ content = call.pre

\* C4 amended: a call ends with no error and the transformed content in the
\* file, or with an error raised before WriteFile and the file as it was, or
\* with WriteFile's error and the file as it was (the open failed) or
\* holding a prefix of the new content (the write or the close failed).
C4_AllOrNothingBeforeWrite ==
    pc = "returned"
        => \/ call.err = "nil"
              /\ content = (IF call.wrote THEN call.data ELSE call.pre)
           \/ call.err # "nil" /\ ~call.wrote /\ content = call.pre
           \/ /\ call.err = "io"
              /\ call.wrote
              /\ \/ content = call.pre
                 \/ /\ Len(content) <= Len(call.data)
                    /\ content = Slice(call.data, 0, Len(content))

C4_Witness ==
    /\ pc = "returned"
    /\ call.fault = "short"
    /\ call.err = "io"
    /\ content # call.pre
    /\ content # call.data

\* C5 as claimed: when old occurs in the file and new does not contain old,
\* ReplaceInFile succeeds, the file holds its content with every occurrence
\* of old replaced by new, and old no longer occurs in it.
C5_NoOccurrenceLeft ==
    (/\ Returned("ReplaceInFile")
     /\ call.fault = "none"
     /\ Contains(call.pre, call.a1)
     /\ ~Contains(call.a2, call.a1))
        => /\ call.err = "nil"
           /\ content = Substituted(call.pre, call.a1, call.a2)
           /\ ~Contains(content, call.a1)

\* C5 amended: under the same conditions ReplaceInFile succeeds and the file
\* holds its content with every occurrence of old, found left to right
\* without overlap, replaced by new; old no longer occurs in it when old is
\* a single character.
C5_AllOccurrencesReplaced ==
    (/\ Returned("ReplaceInFile")
     /\ call.fault = "none"
     /\ Contains(call.pre, call.a1)
     /\ ~Contains(call.a2, call.a1))
        => /\ call.err = "nil"
           /\ content = Substituted(call.pre, call.a1, call.a2)
           /\ (Len(call.a1) = 1 => ~Contains(content, call.a1))

C5_Witness ==
    /\ Returned("ReplaceInFile")
    /\ call.err = "nil"
    /\ ~Contains(call.a2, call.a1)
    /\ Contains(call.pre, call.a1)
    /\ Contains(content, call.a1)

\* C6: the file holds one "multigroup: true" line for each successful call
\* of AllowProjectBeMultiGroup, followed by what it held before them; a
\* successful call puts the line before what the file held; and a call
\* fails only with an I/O error.
C6_PrependCopies ==
    /\ content = Power(multiGroup, nMulti) \o base
    /\ Returned("AllowProjectBeMultiGroup")
         => /\ call.err \in {"nil", "io"}
            /\ (call.err = "io") = (call.fault # "none")
            /\ call.err = "nil" => content = multiGroup \o call.pre

C6_Witness ==
    /\ Returned("AllowProjectBeMultiGroup")
    /\ call.err = "nil"
    /\ nMulti = 2
    /\ base # <<>>
    /\ content = multiGroup \o multiGroup \o base

\* C7 as claimed: ReplaceInFile, ReplaceRegexInFile and
\* AllowProjectBeMultiGroup write with the mode the file had when the call
\* began, UncommentCode with 0644.
C7_ModePreserved ==
    (pc = "returned" /\ call.wrote)
        => /\ call.op \in {"ReplaceInFile", "ReplaceRegexInFile",
                           "AllowProjectBeMultiGroup"}
              => call.perm = call.preMode
           /\ call.op = "UncommentCode" => call.perm = DefaultPerm

\* C7 amended: ReplaceInFile and ReplaceRegexInFile write with the mode the
\* file had when the call began; UncommentCode and AllowProjectBeMultiGroup
\* write with 0644.
C7_ModePreservedByReplace ==
    (pc = "returned" /\ call.wrote)
        => /\ call.op \in {"ReplaceInFile", "ReplaceRegexInFile"}
              => call.perm = call.preMode
           /\ call.op \in {"UncommentCode", "AllowProjectBeMultiGroup"}
              => call.perm = DefaultPerm

C7_Witness ==
    /\ Returned("ReplaceInFile")
    /\ call.wrote
    /\ call.preMode # DefaultPerm
    /\ call.perm = call.preMode

\* The text of match m of src.
Text(src, m) == Slice(src, m[1], m[2])

\* Every match of the last ReplaceRegexInFile call is replaced by a text that
\* differs from it, and there is at least one.
EveryMatchDiffers ==
    LET ms == Matches(call.a1, call.pre)
    IN  /\ ms # <<>>
        /\ \A i \in 1..Len(ms) :
             Expand(call.a2, Text(call.pre, ms[i])) # Text(call.pre, ms[i])

\* A ReplaceRegexInFile call with a pattern that compiles has returned, and
\* no file system call of it failed.
RegexRan ==
    /\ Returned("ReplaceRegexInFile")
    /\ call.a1.valid
    /\ call.fault = "none"

\* C8 as claimed: when the pattern matches and the replacement of a match
\* differs from the match, ReplaceRegexInFile returns no error and the file
\* holds the content with all matches replaced; and it returns the not-found
\* error exactly when the content with all matches replaced is the content.
C8_DifferingMatchSucceeds ==
    RegexRan
        => LET s == Assembled(call.pre, Matches(call.a1, call.pre), call.a2, 0)
           IN  /\ EveryMatchDiffers => (call.err = "nil" /\ content = s)
               /\ (call.err = "notfound") = (s = call.pre)

\* C8 amended: ReplaceRegexInFile returns the not-found error exactly when
\* the content with all matches replaced is the content, and otherwise
\* returns no error and leaves that content in the file; a single match whose
\* replacement differs from it is enough for that, several such matches are
\* not.
C8_ChangedContentSucceeds ==
    RegexRan
        => LET ms == Matches(call.a1, call.pre)
               s == Assembled(call.pre, ms, call.a2, 0)
           IN  /\ (call.err = "notfound") = (s = call.pre)
               /\ s # call.pre => (call.err = "nil" /\ content = s)
               /\ s = call.pre => content = call.pre
               /\ (Len(ms) = 1 /\ EveryMatchDiffers) => call.err = "nil"

C8_Witness ==
    /\ RegexRan
    /\ call.err = "nil"
    /\ Len(Matches(call.a1, call.pre)) = 2
    /\ EveryMatchDiffers
    /\ content # call.pre

C2_UninstallsOnlyItsOwn ==
    (tc.made = "NewTestContext" /\ run.pc = "torn")
        => /\ run.uninstalledProm => run.installedProm
           /\ run.uninstalledOLM => run.installedOLM
           /\ run.promBefore => ~run.uninstalledProm
           /\ run.olmBefore => ~run.uninstalledOLM

\* C10 as claimed: when both calls have returned, the file holds what one of
\* them computes from the original content or from the other's output.
C10_LastWriterWins == RaceDone => LastWriterWins

\* C10 amended: the same, for races in which neither call read or opened the
\* file between the other's open and its write.
C10_LastWriterWinsApart == (RaceDone /\ ~overlap) => LastWriterWins

\* The update of racer 1 is lost: racer 2 wrote last, from the original.
C10_Witness ==
    /\ RaceDone
    /\ ~overlap
    /\ Out(1, orig) # orig
    /\ content = Out(2, orig)
    /\ content # Out(2, Out(1, orig))
    /\ content # Out(1, orig)

====
